---- MODULE Spec2Model ----
(***************************************************************************)
(* tower-default-headers: a tower Layer/Service pair that adds a fixed     *)
(* set of default headers to every successful response that does not       *)
(* already carry a header of the same name (src/src/lib.rs).               *)
(*                                                                         *)
(* A HeaderMap is modelled as the sequence of its entries in stored order, *)
(* one entry per distinct name, each entry holding the non-empty sequence  *)
(* of the values of that name.                                             *)
(***************************************************************************)
EXTENDS Naturals, Sequences, FiniteSets

VARIABLES
    layer_cfg,     \* the DefaultHeadersLayer built by DefaultHeadersLayer::new
    services,      \* the DefaultHeaders<S> values produced so far
    futures,       \* per request: the ResponseFuture the caller holds
    inner_calls,   \* the requests the innermost stage's call has received
    inner_out,     \* per request: what the innermost future has yielded
    released,      \* per request: the Poll::Ready value handed to the caller
    last_poll,     \* per request: what the last poll of the wrapper reported
    merges,        \* per request: the merge passes run, each its inserted names
    history,       \* per request: the phases passed through
    inner_ready,   \* outcomes of the innermost stage's poll_ready, in order
    outer_ready    \* outcomes the wrapper's poll_ready returned, in order

vars == <<layer_cfg, services, futures, inner_calls, inner_out, released,
          last_poll, merges, history, inner_ready, outer_ready>>

---------------------------------------------------------------------------
(* Bounds *)

MaxHeaders == 2
MaxReq == 2
MaxSvc == 2
MaxReadyPolls == 2

---------------------------------------------------------------------------
(* Value domains *)

Names == {"x-frame-options", "server"}
Values == {"deny", "sameorigin"}
Errors == {"E1", "E2"}
Statuses == {"200 OK", "404 Not Found"}
Bodies == {"hello, world!"}
Requests == 1..MaxReq

None == [kind |-> "none"]
Pending == [kind |-> "Pending"]
Ok(res) == [kind |-> "Ok", res |-> res]
Err(e) == [kind |-> "Err", err |-> e]
Base == [kind |-> "inner"]

ValueSeqs(n) == UNION {[1..k -> Values] : k \in 1..n}

RECURSIVE Count(_)
Count(h) == IF h = <<>> THEN 0 ELSE Len(Head(h).values) + Count(Tail(h))

HeaderMapsUpTo(n) ==
    LET Entries == [name : Names, values : ValueSeqs(n)]
        MaxNames == IF n < Cardinality(Names) THEN n ELSE Cardinality(Names)
    IN {h \in UNION {[1..k -> Entries] : k \in 0..MaxNames} :
            /\ \A i, j \in 1..Len(h) : i # j => h[i].name # h[j].name
            /\ Count(h) <= n}

HeaderMaps == HeaderMapsUpTo(MaxHeaders)

Responses == [status : Statuses, headers : HeaderMaps, body : Bodies]

---------------------------------------------------------------------------
(* http::HeaderMap operations used by the crate *)

contains_key(h, name) == \E i \in 1..Len(h) : h[i].name = name

insert(h, name, value) ==
    IF contains_key(h, name)
    THEN [i \in 1..Len(h) |->
            IF h[i].name = name THEN [name |-> name, values |-> <<value>>]
            ELSE h[i]]
    ELSE Append(h, [name |-> name, values |-> <<value>>])

\* HeaderMap::append keeps the values already there; the crate never calls it
append(h, name, value) ==
    IF contains_key(h, name)
    THEN [i \in 1..Len(h) |->
            IF h[i].name = name
            THEN [name |-> name, values |-> Append(h[i].values, value)]
            ELSE h[i]]
    ELSE Append(h, [name |-> name, values |-> <<value>>])

RECURSIVE iter(_)
iter(h) ==
    IF h = <<>> THEN <<>>
    ELSE [i \in 1..Len(Head(h).values) |->
            [name |-> Head(h).name, value |-> Head(h).values[i]]]
         \o iter(Tail(h))

get_all(h, name) ==
    IF contains_key(h, name)
    THEN (CHOOSE i \in 1..Len(h) : h[i].name = name)
    ELSE 0

values_of(h, name) ==
    IF contains_key(h, name) THEN h[get_all(h, name)].values ELSE <<>>

keys(h) == {h[i].name : i \in 1..Len(h)}

---------------------------------------------------------------------------
(* DefaultHeadersLayer *)

DefaultHeadersLayer_new(default_headers) ==
    [default_headers |-> default_headers]

DefaultHeadersLayer_layer(self, inner) ==
    [kind |-> "DefaultHeaders",
     default_headers |-> self.default_headers,
     inner |-> inner]

---------------------------------------------------------------------------
(* The innermost stage and its future: any Service, any Future.  Its call   *)
(* hands back a future for the request; what its poll_ready and its         *)
(* future's poll yield is the environment's choice.                         *)

Ready == [kind |-> "Ready"]
ReadyOutcomes == {Ready, Pending} \cup {Err(e) : e \in Errors}

Outcomes == {Pending} \cup {Ok(r) : r \in Responses} \cup {Err(e) : e \in Errors}

Response(headers) ==
    [status |-> "200 OK", headers |-> headers, body |-> "hello, world!"]

\* the handler responses of the two tests: no header, and x-frame-options set
SampleResponses ==
    { Response(<<>>),
      Response(<<[name |-> "x-frame-options", values |-> <<"sameorigin">>]>>) }

SampleOutcomes ==
    {Pending} \cup {Ok(r) : r \in SampleResponses} \cup {Err("E1")}

Inner_call(self, req) ==
    [self |-> self,
     future |-> [kind |-> "inner_future", req |-> req],
     calls |-> <<req>>]

Inner_poll_ready(self, o) == [out |-> o, checks |-> <<o>>]

Inner_poll(fut, o) == [out |-> o, merges |-> <<>>]

RECURSIVE Service_call(_, _), Service_poll_ready(_, _), Future_poll(_, _)

---------------------------------------------------------------------------
(* ResponseFuture::poll *)

\* faults of the loop body: the presence test inverted, the presence test
\* dropped, and the presence test dropped with append in place of insert
MergeStep_inverted(headers, name, value) ==
    IF contains_key(headers, name)
    THEN insert(headers, name, value)
    ELSE headers

MergeStep_always(headers, name, value) == insert(headers, name, value)

MergeStep_append(headers, name, value) == append(headers, name, value)

\* the body of the for loop: one (name, value) pair of the default headers
MergeStep(headers, name, value) ==
    IF ~contains_key(headers, name)
    THEN insert(headers, name, value)
    ELSE headers

\* the for loop over default_headers.iter(); `acc` is the response's header
\* map so far and the names inserted so far
RECURSIVE MergeLoop(_, _)
MergeLoop(pairs, acc) ==
    IF pairs = <<>> THEN acc
    ELSE LET p == Head(pairs)
             h == MergeStep(acc.headers, p.name, p.value)
         IN MergeLoop(Tail(pairs),
                [headers |-> h,
                 inserted |-> IF h = acc.headers THEN acc.inserted
                              ELSE Append(acc.inserted, p.name)])

\* faults of poll: an inner error answered with a fallback response, and the
\* response rebuilt from its headers alone
ResponseFuture_poll_fallback(this, o) ==
    LET p == Future_poll(this.future, o)
        r == IF p.out.kind = "Err" THEN Response(<<>>) ELSE p.out.res
    IN IF p.out.kind = "Pending" THEN p
       ELSE LET m == MergeLoop(iter(this.default_headers),
                               [headers |-> r.headers, inserted |-> <<>>])
            IN [out |-> Ok([r EXCEPT !.headers = m.headers]),
                merges |-> Append(p.merges, m.inserted)]

ResponseFuture_poll_rebuild(this, o) ==
    LET p == Future_poll(this.future, o)
    IN IF p.out.kind = "Pending" THEN p
       ELSE IF p.out.kind = "Err" THEN p
       ELSE LET m == MergeLoop(iter(this.default_headers),
                               [headers |-> p.out.res.headers, inserted |-> <<>>])
            IN [out |-> Ok(Response(m.headers)),
                merges |-> Append(p.merges, m.inserted)]

ResponseFuture_poll(this, o) ==
    LET p == Future_poll(this.future, o)
    IN IF p.out.kind = "Pending" THEN p
       ELSE IF p.out.kind = "Err" THEN p
       ELSE LET m == MergeLoop(iter(this.default_headers),
                               [headers |-> p.out.res.headers, inserted |-> <<>>])
            IN [out |-> Ok([p.out.res EXCEPT !.headers = m.headers]),
                merges |-> Append(p.merges, m.inserted)]

Future_poll(fut, o) ==
    IF fut.kind = "inner_future" THEN Inner_poll(fut, o)
    ELSE ResponseFuture_poll(fut, o)

---------------------------------------------------------------------------
(* DefaultHeaders<S> as a Service *)

\* faults of the Service impl: readiness answered without asking the inner
\* stage, the default headers moved out of the stage instead of cloned, and
\* the inner call put off until the future is polled
DefaultHeaders_poll_ready_own(self, o) == [out |-> Ready, checks |-> <<>>]

DefaultHeaders_call_take(self, req) ==
    LET in == Service_call(self.inner, req)
    IN [self |-> [self EXCEPT !.inner = in.self, !.default_headers = <<>>],
        future |-> [kind |-> "ResponseFuture",
                    default_headers |-> self.default_headers,
                    future |-> in.future],
        calls |-> in.calls]

DefaultHeaders_call_deferred(self, req) ==
    [self |-> self,
     future |-> [kind |-> "ResponseFuture",
                 default_headers |-> self.default_headers,
                 future |-> [kind |-> "inner_future", req |-> req]],
     calls |-> <<>>]

DefaultHeaders_poll_ready(self, o) == Service_poll_ready(self.inner, o)

DefaultHeaders_call(self, req) ==
    LET in == Service_call(self.inner, req)
    IN [self |-> [self EXCEPT !.inner = in.self],
        future |-> [kind |-> "ResponseFuture",
                    default_headers |-> self.default_headers,
                    future |-> in.future],
        calls |-> in.calls]

Service_poll_ready(svc, o) ==
    IF svc.kind = "inner" THEN Inner_poll_ready(svc, o)
    ELSE DefaultHeaders_poll_ready(svc, o)

Service_call(svc, req) ==
    IF svc.kind = "inner" THEN Inner_call(svc, req)
    ELSE DefaultHeaders_call(svc, req)

---------------------------------------------------------------------------
(* Initial state: the layer has been built from some header map; nothing    *)
(* has been attached or dispatched.                                         *)

Init ==
    /\ \E d \in HeaderMaps : layer_cfg = DefaultHeadersLayer_new(d)
    /\ services = <<>>
    /\ futures = [r \in Requests |-> None]
    /\ inner_calls = <<>>
    /\ inner_out = [r \in Requests |-> None]
    /\ released = [r \in Requests |-> None]
    /\ last_poll = [r \in Requests |-> "none"]
    /\ merges = [r \in Requests |-> <<>>]
    /\ history = [r \in Requests |-> <<>>]
    /\ inner_ready = <<>>
    /\ outer_ready = <<>>

---------------------------------------------------------------------------
(* Actions *)

\* layer.layer(inner)
Attach(inner) ==
    /\ Len(services) < MaxSvc
    /\ services' = Append(services, DefaultHeadersLayer_layer(layer_cfg, inner))
    /\ UNCHANGED <<layer_cfg, futures, inner_calls, inner_out, released,
                   last_poll, merges, history, inner_ready, outer_ready>>

LayerBase == Attach(Base)

LayerWrap(s) ==
    /\ s \in 1..Len(services)
    /\ Attach(services[s])

\* #[derive(Clone)] on DefaultHeaders
CloneService(s) ==
    /\ s \in 1..Len(services)
    /\ Len(services) < MaxSvc
    /\ services' = Append(services, services[s])
    /\ UNCHANGED <<layer_cfg, futures, inner_calls, inner_out, released,
                   last_poll, merges, history, inner_ready, outer_ready>>

\* services[s].poll_ready(cx), the innermost stage answering o
PollReady(s, o) ==
    /\ s \in 1..Len(services)
    /\ Len(outer_ready) < MaxReadyPolls
    /\ LET p == Service_poll_ready(services[s], o)
       IN /\ inner_ready' = inner_ready \o p.checks
          /\ outer_ready' = Append(outer_ready, p.out)
    /\ UNCHANGED <<layer_cfg, services, futures, inner_calls, inner_out,
                   released, last_poll, merges, history>>

\* services[s].call(req) for a request not dispatched before
Call(s, req) ==
    /\ s \in 1..Len(services)
    /\ futures[req] = None
    /\ LET c == Service_call(services[s], req)
       IN /\ services' = [services EXCEPT ![s] = c.self]
          /\ futures' = [futures EXCEPT ![req] = c.future]
          /\ inner_calls' = inner_calls \o c.calls
          /\ inner_out' = [r \in Requests |->
                             IF \E i \in 1..Len(c.calls) : c.calls[i] = r
                             THEN Pending ELSE inner_out[r]]
          /\ history' = [r \in Requests |->
                           IF \E i \in 1..Len(c.calls) : c.calls[i] = r
                           THEN history[r] \o <<"Dispatched", "InnerPending">>
                           ELSE history[r]]
    /\ UNCHANGED <<layer_cfg, released, last_poll, merges, inner_ready,
                   outer_ready>>

\* one poll of the ResponseFuture of request req, the innermost future
\* yielding o; a future is not polled again once it has completed
Poll(req, o) ==
    /\ futures[req] # None
    /\ released[req] = None
    /\ inner_out[req] = Pending
    /\ LET p == Future_poll(futures[req], o)
       IN /\ inner_out' = [inner_out EXCEPT ![req] = o]
          /\ released' = [released EXCEPT ![req] =
                            IF p.out.kind = "Pending" THEN None ELSE p.out]
          /\ last_poll' = [last_poll EXCEPT ![req] =
                            IF p.out.kind = "Pending" THEN "Pending" ELSE "Ready"]
          /\ merges' = [merges EXCEPT ![req] = @ \o p.merges]
          /\ history' = [history EXCEPT ![req] =
                           @ \o (IF o.kind = "Ok" THEN <<"InnerSucceeded">>
                                 ELSE IF o.kind = "Err" THEN <<"InnerFailed">>
                                 ELSE <<>>)
                             \o (IF p.merges # <<>> THEN <<"HeadersMerged">>
                                 ELSE <<>>)]
    /\ UNCHANGED <<layer_cfg, services, futures, inner_calls, inner_ready,
                   outer_ready>>

---------------------------------------------------------------------------
(* Specifications *)

\* any number of requests in flight through one wrapper stage and its clones
Next ==
    \/ LayerBase
    \/ \E s \in 1..MaxSvc : CloneService(s)
    \/ \E s \in 1..MaxSvc, r \in Requests : Call(s, r)
    \/ \E r \in Requests, o \in SampleOutcomes : Poll(r, o)

Spec == Init /\ [][Next]_vars

\* one request through a stage wrapped once or several times, every default
\* set against every inner response
NextMerge ==
    \/ LayerBase
    \/ \E s \in 1..MaxSvc : LayerWrap(s)
    \/ \E s \in 1..MaxSvc : Call(s, 1)
    \/ \E o \in Outcomes : Poll(1, o)

SpecMerge == Init /\ [][NextMerge]_vars

\* readiness checks interleaved with attaching and dispatching
NextReady ==
    \/ LayerBase
    \/ \E s \in 1..MaxSvc : LayerWrap(s)
    \/ \E s \in 1..MaxSvc, o \in ReadyOutcomes : PollReady(s, o)
    \/ \E s \in 1..MaxSvc : Call(s, 1)

SpecReady == Init /\ [][NextReady]_vars

---------------------------------------------------------------------------
(* Properties *)

D == layer_cfg.default_headers

Succeeded(r) == inner_out[r].kind = "Ok"

Original(r) == inner_out[r].res

Final(r) == released[r].res

Occurrences(seq, x) == Cardinality({i \in 1..Len(seq) : seq[i] = x})

RangeOf(seq) == {seq[i] : i \in 1..Len(seq)}

\* the result of a stage wrapped exactly once with defaults d, the inner
\* future yielding o
Once(d, o) ==
    ResponseFuture_poll([kind |-> "ResponseFuture",
                         default_headers |-> d,
                         future |-> [kind |-> "inner_future", req |-> 0]],
                        o).out

RECURSIVE Depth(_)
Depth(x) ==
    IF x.kind = "DefaultHeaders" THEN 1 + Depth(x.inner)
    ELSE IF x.kind = "ResponseFuture" THEN 1 + Depth(x.future)
    ELSE 0

RECURSIVE InnermostFuture(_)
InnermostFuture(f) ==
    IF f.kind = "ResponseFuture" THEN InnermostFuture(f.future) ELSE f

RECURSIVE CapturedHeaders(_)
CapturedHeaders(f) ==
    IF f.kind = "ResponseFuture"
    THEN {f.default_headers} \cup CapturedHeaders(f.future)
    ELSE {}

\* C1 (merge-if-absent): whenever the inner future succeeds with response R,
\* the wrapper completes with Ok, and every name of the default set that has
\* no entry in R is present in the final response with values taken from the
\* default set's entries for that name.
C1_MergeIfAbsent ==
    \A r \in Requests :
        Succeeded(r) =>
            /\ released[r].kind = "Ok"
            /\ \A n \in keys(D) :
                 ~contains_key(Original(r).headers, n) =>
                    /\ contains_key(Final(r).headers, n)
                    /\ RangeOf(values_of(Final(r).headers, n))
                         \subseteq RangeOf(values_of(D, n))

C1_Witness ==
    \E r \in Requests :
        /\ Succeeded(r)
        /\ released[r].kind = "Ok"
        /\ \E n \in keys(D) :
             /\ ~contains_key(Original(r).headers, n)
             /\ contains_key(Final(r).headers, n)
        /\ Original(r).headers # <<>>

\* C2 (non-override): whenever the inner future succeeds with response R,
\* every name that has entries in R keeps exactly R's values, in R's order,
\* in the final response, whatever the default set holds for that name.
C2_NonOverride ==
    \A r \in Requests :
        Succeeded(r) =>
            /\ released[r].kind = "Ok"
            /\ \A n \in keys(Original(r).headers) :
                 values_of(Final(r).headers, n)
                    = values_of(Original(r).headers, n)

C2_Witness ==
    \E r \in Requests :
        /\ Succeeded(r)
        /\ released[r].kind = "Ok"
        /\ \E n \in keys(Original(r).headers) \cap keys(D) :
             /\ values_of(D, n)[1] # values_of(Original(r).headers, n)[1]
             /\ values_of(Final(r).headers, n)
                    = values_of(Original(r).headers, n)

\* C3 (transparency on error): whenever the inner future fails with error E,
\* the wrapper completes with exactly Err(E) and no merge pass has run for
\* that request.
C3_ErrorTransparency ==
    \A r \in Requests :
        inner_out[r].kind = "Err" =>
            /\ released[r] = inner_out[r]
            /\ merges[r] = <<>>

C3_Witness ==
    \E r \in Requests :
        /\ inner_out[r].kind = "Err"
        /\ released[r] = inner_out[r]
        /\ Depth(futures[r]) >= 2
        /\ D # <<>>

\* C4 (duplicate default names): when the default set holds two or more
\* values for a name and the inner response has no entry for that name, the
\* final response holds exactly one value for it, the first of the default
\* set's values in stored order.
C4_FirstDuplicateWins ==
    \A r \in Requests :
        Succeeded(r) =>
            /\ released[r].kind = "Ok"
            /\ \A n \in keys(D) :
                 (/\ Len(values_of(D, n)) >= 2
                  /\ ~contains_key(Original(r).headers, n))
                 => values_of(Final(r).headers, n) = <<values_of(D, n)[1]>>

C4_Witness ==
    \E r \in Requests :
        /\ Succeeded(r)
        /\ released[r].kind = "Ok"
        /\ \E n \in keys(D) :
             /\ Len(values_of(D, n)) >= 2
             /\ values_of(D, n)[1] # values_of(D, n)[2]
             /\ ~contains_key(Original(r).headers, n)
             /\ values_of(Final(r).headers, n) = <<values_of(D, n)[1]>>

\* C5 (idempotence): a request through a stage wrapped two or more times with
\* the same defaults completes with the same result as through a stage
\* wrapped once, and every merge pass after the first inserts nothing.
C5_Idempotent ==
    \A r \in Requests :
        (Succeeded(r) /\ Depth(futures[r]) >= 2) =>
            /\ released[r] = Once(D, inner_out[r])
            /\ Len(merges[r]) = Depth(futures[r])
            /\ \A k \in 2..Len(merges[r]) : merges[r][k] = <<>>

C5_Witness ==
    \E r \in Requests :
        /\ Succeeded(r)
        /\ Depth(futures[r]) >= 2
        /\ Len(merges[r]) >= 2
        /\ merges[r][1] # <<>>
        /\ released[r] = Once(D, inner_out[r])

Dispatched == <<"Dispatched", "InnerPending">>

\* C6 (per-request state machine): a request's phases are a prefix-closed
\* walk of Dispatched, InnerPending, then InnerFailed, or InnerSucceeded
\* followed by HeadersMerged; while the inner future is pending the wrapper
\* has reported nothing but pending, released nothing and merged nothing; a
\* result is released exactly in the two terminal phases, the merge only
\* after an inner success; and the inner stage is never called twice for one
\* request.
C6_StateMachine ==
    \A r \in Requests :
        /\ history[r] \in { <<>>, Dispatched,
                            Dispatched \o <<"InnerFailed">>,
                            Dispatched \o <<"InnerSucceeded", "HeadersMerged">> }
        /\ inner_out[r] = Pending =>
              /\ released[r] = None
              /\ last_poll[r] # "Ready"
              /\ merges[r] = <<>>
              /\ history[r] = Dispatched
        /\ released[r] # None <=>
              (/\ history[r] # <<>>
               /\ history[r][Len(history[r])] \in {"InnerFailed", "HeadersMerged"})
        /\ released[r] # None => last_poll[r] = "Ready"
        /\ merges[r] # <<>> => Succeeded(r)
        /\ Occurrences(inner_calls, r) <= 1

C6_Witness ==
    \E r1, r2 \in Requests :
        /\ history[r1] = Dispatched \o <<"InnerSucceeded", "HeadersMerged">>
        /\ released[r1].kind = "Ok"
        /\ merges[r1] # <<<<>>>>
        /\ inner_out[r2] = Pending
        /\ last_poll[r2] = "Pending"

\* what holds of the default sets and the released results in every state
C7_StateInv ==
    /\ \A s \in 1..Len(services) : services[s].default_headers = D
    /\ \A r \in Requests :
          /\ futures[r] # None => CapturedHeaders(futures[r]) = {D}
          /\ inner_out[r].kind \in {"Ok", "Err"} =>
                released[r] = Once(D, inner_out[r])

\* what every step leaves alone
C7_Step ==
    /\ layer_cfg' = layer_cfg
    /\ \A s \in 1..Len(services) : services'[s] = services[s]

\* C7 (independence of concurrent requests): the default set of the layer
\* and of every wrapper stage never changes once built; every future holds
\* its own copy of the configured defaults; and each released result is the
\* result of one merge of the configured defaults into that request's own
\* inner result.
C7_Independence == []C7_StateInv /\ [][C7_Step]_vars

C7_Witness ==
    \E r1, r2 \in Requests :
        /\ r1 # r2
        /\ inner_calls = <<r1, r2>>
        /\ inner_out[r1] = Pending
        /\ last_poll[r1] = "Pending"
        /\ Succeeded(r2)
        /\ released[r2].kind = "Ok"
        /\ merges[r2] # <<<<>>>>
        /\ Len(services) >= 2

\* C8 (readiness transparency): the outcomes the wrapper's poll_ready has
\* returned are, one for one and in order, the outcomes of the innermost
\* stage's poll_ready.
C8_ReadinessTransparent == outer_ready = inner_ready

C8_Witness ==
    /\ Len(outer_ready) >= 2
    /\ outer_ready[1].kind = "Pending"
    /\ outer_ready[2].kind = "Err"
    /\ outer_ready = inner_ready
    /\ inner_calls # <<>>
    /\ \E s \in 1..Len(services) : Depth(services[s]) >= 2

\* C9 (immediate dispatch): once call has returned the future of a request,
\* the innermost stage has received that request exactly once, the future
\* wraps the inner future of that same request, and this is so before the
\* future is polled for the first time.
C9_ImmediateDispatch ==
    \A r \in Requests :
        futures[r] # None =>
            /\ Occurrences(inner_calls, r) = 1
            /\ inner_out[r] # None
            /\ futures[r].kind = "ResponseFuture"
            /\ InnermostFuture(futures[r]) = [kind |-> "inner_future", req |-> r]

C9_Witness ==
    \E r \in Requests :
        /\ futures[r] # None
        /\ last_poll[r] = "none"
        /\ released[r] = None
        /\ Occurrences(inner_calls, r) = 1

\* C10 (frame of the merge): on success the final header map is the original
\* header map, entry for entry and in the same order, followed by exactly one
\* single-valued entry for each distinct default name the original lacked;
\* status and body are the original's; with an empty default set the
\* response is the original.
C10_Frame ==
    \A r \in Requests :
        Succeeded(r) =>
            LET R == Original(r)
                F == Final(r)
                added == keys(D) \ keys(R.headers)
                n == Len(R.headers)
            IN /\ released[r].kind = "Ok"
               /\ F.status = R.status
               /\ F.body = R.body
               /\ Len(F.headers) = n + Cardinality(added)
               /\ SubSeq(F.headers, 1, n) = R.headers
               /\ {F.headers[i].name : i \in (n + 1)..Len(F.headers)} = added
               /\ \A i \in (n + 1)..Len(F.headers) : Len(F.headers[i].values) = 1
               /\ D = <<>> => F = R

C10_Witness ==
    \E r \in Requests :
        /\ Succeeded(r)
        /\ released[r].kind = "Ok"
        /\ Original(r).status = "404 Not Found"
        /\ Len(Original(r).headers) = 1
        /\ Len(Final(r).headers) = 2
        /\ keys(D) \cap keys(Original(r).headers) # {}

====
